---- MODULE Spec2Model ----
(***************************************************************************)
(* wxAnyThread: the anythread decorator, MethodInvocationEvent and         *)
(* EventWithData of src/wxAnyThread/__init__.py, with the wx main thread's *)
(* event loop that dispatches the posted events.                           *)
(***************************************************************************)
EXTENDS Integers, Sequences, FiniteSets, TLC

(* ---------------------------------------------------------------------- *)
(* Bounds                                                                  *)
(* ---------------------------------------------------------------------- *)
NumWorkers == 2     \* threads other than the main thread
MaxCalls   == 2     \* calls of wrapped methods made in one run

MainThread == 0
Workers    == 1..NumWorkers
Threads    == {MainThread} \cup Workers

\* The wx objects wrapped methods are called on, and the integer arguments
Targets == {"frame", "dialog"}
ArgVals == {2}

(* ---------------------------------------------------------------------- *)
(* Python values                                                           *)
(* ---------------------------------------------------------------------- *)
IntVal(i) == [t |-> "int", i |-> i]
StrVal(s) == [t |-> "str", s |-> s]
NoneVal   == [t |-> "none"]

\* An exception object: its class, its args tuple, the place that created the
\* object, and its __traceback__.
Exc(type, args, site, tb) ==
  [t |-> "exc", type |-> type, args |-> args, site |-> site, tb |-> tb]

\* A traceback entry: the thread and the function in which the error was raised.
TbAt(thread, func) == <<[thread |-> thread, func |-> func]>>

Returned(v) == [kind |-> "return", value |-> v]
Raised(e)   == [kind |-> "raise", exc |-> e]
NoOutcome   == [kind |-> "none"]

(* ---------------------------------------------------------------------- *)
(* The wrapped callables and their calls                                   *)
(* ---------------------------------------------------------------------- *)
\* add(self, x, y=0) returns x + y; getnone(self) returns None;
\* fail(self) raises ValueError("bad"); lookup(self) raises KeyError("k");
\* reterr(self) returns a ValueError("bad") object without raising it;
\* outer(self) returns self.add(2) + 1, add being a wrapped method;
\* getdata(self), the docstring's GetSomeData, shows a modal dialog, during
\* which the main thread's loop goes on dispatching events, and returns 1.
Funcs == {"add", "getnone", "fail", "lookup", "reterr", "outer", "getdata"}

\* **kwds is a set of <<name, value>> pairs
NoKwds == {}
Kwds   == {NoKwds, {<<"y", 3>>}}
KwdY(kwds) == IF kwds = NoKwds THEN 0 ELSE (CHOOSE p \in kwds : p[1] = "y")[2]

\* The wrapped methods of the class of each target
Methods(g) ==
  IF g = "frame" THEN {"add", "fail", "lookup", "getdata"}
                 ELSE {"add", "getnone", "reterr", "outer"}

\* The calls made: args[1] is self, the target object
Calls ==
  [func : {"add"}, args : Targets \X ArgVals, kwds : Kwds]
    \cup {[func |-> f, args |-> <<g>>, kwds |-> NoKwds] :
            <<f, g>> \in {p \in (Funcs \ {"add"}) \X Targets : p[1] \in Methods(p[2])}}
NoCall == [func |-> "none"]

\* func(*args, **kwds) executed on thread `thread`
Apply(func, args, kwds, thread) ==
  CASE func = "add" ->
         Returned(IntVal(args[2] + KwdY(kwds)))
    [] func = "getnone" -> Returned(NoneVal)
    [] func = "fail" ->
         Raised(Exc("ValueError", <<StrVal("bad")>>, "func", TbAt(thread, func)))
    [] func = "lookup" ->
         Raised(Exc("KeyError", <<StrVal("k")>>, "func", TbAt(thread, func)))
    [] func = "reterr" ->
         Returned(Exc("ValueError", <<StrVal("bad")>>, "func", <<>>))
    [] func = "outer" -> Returned(IntVal(2 + 1))
    [] func = "getdata" -> Returned(IntVal(1))

\* The call of a wrapped method that outer(self) makes
InnerCall(args) == [func |-> "add", args |-> <<args[1], 2>>, kwds |-> NoKwds]

(* ---------------------------------------------------------------------- *)
(* State                                                                   *)
(* ---------------------------------------------------------------------- *)
VARIABLES
  pc,         \* where each thread is in invoker()/invoke(), or in the event loop
  call,       \* the (func, args, kwds) of the outermost invoker() call of each thread
  stack,      \* per thread, the frames of wrapped callables it is executing
  evt,        \* per thread, the MethodInvocationEvent its invoker() created
  sig,        \* the EventWithData objects, by the reference events hold to them
  pending,    \* events posted with wx.PostEvent, not yet dispatched
  connects,   \* per target, the number of Connect(..., handler) calls made
  connected,  \* per target, whether it has the _AnyThread__connected attribute
  outcome,    \* per thread, what its invoker() call returned or raised
  escaped,    \* whether an error left process() into the event loop
  ncalls      \* calls of wrapped methods made so far

vars == <<pc, call, stack, evt, sig, pending, connects, connected, outcome, escaped, ncalls>>

Absent == [t |-> "absent"]     \* an attribute that is not there
NoEvt  == [func |-> "none"]
NoSig  == [isset |-> FALSE, result |-> Absent, exception |-> Absent, traceback |-> Absent]
Inline == -1                   \* a frame entered from invoker(), not from process()

\* EventWithData.__init__
EventWithData == [isset |-> FALSE, result |-> Absent,
                  exception |-> NoneVal, traceback |-> NoneVal]

\* Mutation: one EventWithData shared by every event (a class attribute)
NewSignal_Shared(t) == 1

\* self.event = EventWithData() in the event created by thread t: a new object
\* of that event alone
NewSignal(t) == t

\* MethodInvocationEvent.__init__, in the invoker() of thread t; event is the
\* reference to its EventWithData
MethodInvocationEvent(func, args, kwds, t) ==
  [func |-> func, args |-> args, kwds |-> kwds, event |-> NewSignal(t),
   posted |-> FALSE, runs |-> 0]

\* A callable being executed: entered from `via`, with `more` handler entries
\* of the same event still to run after it, and `inner` the outcome of the
\* wrapped call the callable itself made
Frame(func, args, kwds, via, more) ==
  [func |-> func, args |-> args, kwds |-> kwds, via |-> via, more |-> more,
   inner |-> NoOutcome]

\* What the callable of frame f, executed on thread t, returns or raises
Result(f, t) ==
  IF f.func = "outer"
    THEN IF f.inner.kind = "return"
           THEN IF f.inner.value.t = "int"
                  THEN Returned(IntVal(f.inner.value.i + 1))
                  ELSE Raised(Exc("TypeError", <<StrVal("unsupported operand")>>,
                                  "func", TbAt(t, f.func)))
           ELSE f.inner
    ELSE Apply(f.func, f.args, f.kwds, t)

Init ==
  /\ pc = [t \in Threads |-> "idle"]
  /\ call = [t \in Threads |-> NoCall]
  /\ stack = [t \in Threads |-> <<>>]
  /\ evt = [t \in Threads |-> NoEvt]
  /\ sig = [t \in Threads |-> NoSig]
  /\ pending = <<>>
  /\ connects = [g \in Targets |-> 0]
  /\ connected = [g \in Targets |-> FALSE]
  /\ outcome = [t \in Threads |-> NoOutcome]
  /\ escaped = FALSE
  /\ ncalls = 0

(* ---------------------------------------------------------------------- *)
(* EventWithData and MethodInvocationEvent                                 *)
(* ---------------------------------------------------------------------- *)
\* Mutation: the thread test always answers no
IsMainThread_Never(t) == FALSE

\* Mutation: the thread test always answers yes
IsMainThread_Always(t) == TRUE

\* wx.IsMainThread() evaluated on thread t
IsMainThread(t) == t = MainThread

\* Mutation: the attribute test answers yes on a target never connected
hasattr_connected_Always(g) == TRUE

\* hasattr(self, "_AnyThread__connected")
hasattr_connected(g) == connected[g]

\* EventWithData.set_exc_info(exc_info): exc_info[1] is the error, exc_info[2]
\* its traceback
set_exc_info(ev, exc) ==
  [ev EXCEPT !.exception = exc, !.traceback = exc.tb]

\* EventWithData.set
set(ev) == [ev EXCEPT !.isset = TRUE]

\* Mutation: wait() returns without the event being set
wait_returns_NoBlock(ev) == TRUE

\* EventWithData.wait returns
wait_returns(ev) == ev.isset

\* Mutation: the except clause also stores a result, None
process_ResultOnError(ev, res) ==
  [event   |-> set(IF res.kind = "return"
                     THEN [ev EXCEPT !.result = res.value]
                     ELSE [set_exc_info(ev, res.exc) EXCEPT !.result = NoneVal]),
   escaped |-> FALSE]

\* Mutation: no except clause, so an error of func leaves process() before set()
process_NoExcept(ev, res) ==
  IF res.kind = "return"
    THEN [event |-> set([ev EXCEPT !.result = res.value]), escaped |-> FALSE]
    ELSE [event |-> ev, escaped |-> TRUE]

\* Mutation: set() called inside the try block, after the result is stored
process_SetInTry(ev, res) ==
  [event   |-> IF res.kind = "return"
                 THEN set([ev EXCEPT !.result = res.value])
                 ELSE set_exc_info(ev, res.exc),
   escaped |-> FALSE]

\* MethodInvocationEvent.process once func has returned or raised `res`:
\* the new EventWithData, and whether an error leaves process()
process(ev, res) ==
  [event   |-> set(IF res.kind = "return"
                     THEN [ev EXCEPT !.result = res.value]
                     ELSE set_exc_info(ev, res.exc)),
   escaped |-> FALSE]

\* raise type(exception)(exception).with_traceback(traceback) in invoke() on
\* thread t: a new object of the class of the original error, whose single
\* argument is the original error; type(None)(None) is a TypeError
reraise(exception, traceback, t) ==
  IF exception.t = "exc"
    THEN Exc(exception.type, <<exception>>, "invoke", TbAt(t, "invoke") \o traceback)
    ELSE Exc("TypeError", <<StrVal("NoneType takes no arguments")>>, "invoke",
             TbAt(t, "invoke"))

\* Mutation: failure is told by the value of the result: None is a failure
invoke_read_NoneIsFailure(ev, t) ==
  IF ev.result # Absent /\ ev.result # NoneVal
    THEN Returned(ev.result)
    ELSE Raised(reraise(ev.exception, ev.traceback, t))

\* Mutation: the result is read but not returned
invoke_read_NoReturn(ev, t) ==
  IF ev.result # Absent
    THEN Returned(NoneVal)
    ELSE Raised(reraise(ev.exception, ev.traceback, t))

\* MethodInvocationEvent.invoke after wait() has returned, on thread t
invoke_read(ev, t) ==
  IF ev.result # Absent
    THEN Returned(ev.result)
    ELSE Raised(reraise(ev.exception, ev.traceback, t))

\* Mutation: func is called but its value is not returned
invoker_inline_NoReturn(res) ==
  IF res.kind = "return" THEN Returned(NoneVal) ELSE res

\* return func(*args, **kwds) in invoker() on the main thread
invoker_inline(res) == res

\* Mutation: handler() calls evt.Skip(), so every Connect entry runs it
HandlerRuns_All(n) == n

\* The handlers wx runs for one event on a target with n Connect entries:
\* handler() does not Skip() the event, so the first entry ends the dispatch
HandlerRuns(n) == IF n = 0 THEN 0 ELSE 1

\* The event created by thread t is still in the queue or being processed
Referenced(t) ==
  \/ \E i \in 1..Len(pending) : pending[i].ref = t
  \/ \E i \in 1..Len(stack[MainThread]) : stack[MainThread][i].via = t

(* ---------------------------------------------------------------------- *)
(* Actions                                                                 *)
(* ---------------------------------------------------------------------- *)
\* invoker(), lines 115-119, entered on thread t with call c: the main thread
\* enters func; another thread has evaluated
\* hasattr(self, "_AnyThread__connected")
Invoker(t, c) ==
  /\ IF IsMainThread(t)
       THEN /\ stack' = [stack EXCEPT ![t] =
                           <<Frame(c.func, c.args, c.kwds, Inline, 0)>> \o @]
            /\ pc' = [pc EXCEPT ![t] = "running"]
            /\ call' = IF stack[t] = <<>> THEN [call EXCEPT ![t] = c] ELSE call
       ELSE /\ pc' = [pc EXCEPT ![t] =
                        IF hasattr_connected(c.args[1]) THEN "post" ELSE "connect"]
            /\ call' = [call EXCEPT ![t] = c]
            /\ UNCHANGED stack
  /\ UNCHANGED <<evt, sig, pending, connects, connected, outcome, escaped>>

\* A thread in no call calls a wrapped method
Call(t, c) ==
  /\ pc[t] = "idle"
  /\ stack[t] = <<>>
  /\ ncalls < MaxCalls
  /\ ncalls' = ncalls + 1
  /\ Invoker(t, c)

\* The callable outer, being executed by thread t, calls the wrapped method
NestedCall(t) ==
  /\ pc[t] = "running"
  /\ stack[t] # <<>>
  /\ Head(stack[t]).func = "outer"
  /\ Head(stack[t]).inner = NoOutcome
  /\ Invoker(t, InnerCall(Head(stack[t]).args))
  /\ UNCHANGED ncalls

\* invoker(), line 120: self.Connect(-1, -1, _EVT_INVOKE_METHOD, handler)
Connect(t) ==
  /\ pc[t] = "connect"
  /\ connects' = [connects EXCEPT ![call[t].args[1]] = @ + 1]
  /\ pc' = [pc EXCEPT ![t] = "setflag"]
  /\ UNCHANGED <<call, stack, evt, sig, pending, connected, outcome, escaped, ncalls>>

\* invoker(), line 121: self._AnyThread__connected = True
SetFlag(t) ==
  /\ pc[t] = "setflag"
  /\ connected' = [connected EXCEPT ![call[t].args[1]] = TRUE]
  /\ pc' = [pc EXCEPT ![t] = "post"]
  /\ UNCHANGED <<call, stack, evt, sig, pending, connects, outcome, escaped, ncalls>>

\* invoker(), line 122, and invoke(), line 78:
\* evt = MethodInvocationEvent(func, args, kwds); wx.PostEvent(self.args[0], self)
PostEvent(t) ==
  /\ pc[t] = "post"
  /\ LET e == MethodInvocationEvent(call[t].func, call[t].args, call[t].kwds, t) IN
       /\ sig' = [sig EXCEPT ![e.event] = EventWithData]
       /\ evt' = [evt EXCEPT ![t] = [e EXCEPT !.posted = TRUE]]
       /\ pending' = Append(pending, [target |-> e.args[1], ref |-> t])
  /\ pc' = [pc EXCEPT ![t] = "wait"]
  /\ UNCHANGED <<call, stack, connects, connected, outcome, escaped, ncalls>>

\* invoke(), lines 79-86: wait() returns, then the result is returned or the
\* error raised
WaitReturn(t) ==
  /\ pc[t] = "wait"
  /\ wait_returns(sig[evt[t].event])
  /\ outcome' = [outcome EXCEPT ![t] = invoke_read(sig[evt[t].event], t)]
  /\ pc' = [pc EXCEPT ![t] = "returned"]
  /\ UNCHANGED <<call, stack, evt, sig, pending, connects, connected, escaped, ncalls>>

\* The caller has the outcome of invoker() and goes on; an event that nothing
\* refers to any more is freed with its EventWithData
Return(t) ==
  /\ pc[t] = "returned"
  /\ pc' = [pc EXCEPT ![t] = "idle"]
  /\ call' = [call EXCEPT ![t] = NoCall]
  /\ outcome' = [outcome EXCEPT ![t] = NoOutcome]
  /\ IF evt[t] = NoEvt \/ Referenced(t)
       THEN UNCHANGED <<evt, sig>>
       ELSE /\ evt' = [evt EXCEPT ![t] = NoEvt]
            /\ sig' = [sig EXCEPT ![evt[t].event] = NoSig]
  /\ UNCHANGED <<stack, pending, connects, connected, escaped, ncalls>>

\* The main thread is in an event loop: its main loop, or the loop of the
\* modal dialog that getdata is showing
InLoop ==
  \/ pc[MainThread] = "idle" /\ stack[MainThread] = <<>>
  \/ /\ pc[MainThread] = "running"
     /\ stack[MainThread] # <<>>
     /\ Head(stack[MainThread]).func = "getdata"

\* The main thread's loop takes the next pending event and runs the handlers
\* connected on its target: handler(evt) enters evt.process(), lines 101, 91
DispatchEvent ==
  /\ InLoop
  /\ pending # <<>>
  /\ LET e == Head(pending)
         n == HandlerRuns(connects[e.target])
     IN
       /\ pending' = Tail(pending)
       /\ IF n > 0
            THEN /\ stack' = [stack EXCEPT ![MainThread] =
                        <<Frame(evt[e.ref].func, evt[e.ref].args, evt[e.ref].kwds,
                                e.ref, n - 1)>> \o @]
                 /\ evt' = [evt EXCEPT ![e.ref].runs = @ + 1]
                 /\ pc' = [pc EXCEPT ![MainThread] = "running"]
            ELSE UNCHANGED <<stack, evt, pc>>
  /\ UNCHANGED <<call, sig, connects, connected, outcome, escaped, ncalls>>

\* The callable a thread is executing returns or raises: back in invoker()
\* (line 116), which hands the outcome to its caller, or in process() (lines
\* 92-96), after which the next handler entry of the event runs, if any
FuncEnd(t) ==
  /\ pc[t] = "running"
  /\ stack[t] # <<>>
  /\ LET f == Head(stack[t])
         rest == Tail(stack[t])
         res == Result(f, t)
     IN
       /\ f.func = "outer" => f.inner # NoOutcome
       /\ IF f.via = Inline
            THEN /\ IF rest = <<>>
                      THEN /\ outcome' = [outcome EXCEPT ![t] = invoker_inline(res)]
                           /\ pc' = [pc EXCEPT ![t] = "returned"]
                           /\ stack' = [stack EXCEPT ![t] = rest]
                      ELSE /\ stack' = [stack EXCEPT ![t] =
                                  <<[rest[1] EXCEPT !.inner = invoker_inline(res)]>>
                                    \o Tail(rest)]
                           /\ UNCHANGED <<outcome, pc>>
                 /\ UNCHANGED <<evt, sig, escaped>>
            ELSE LET p == process(sig[evt[f.via].event], res) IN
                 /\ sig' = [sig EXCEPT ![evt[f.via].event] = p.event]
                 /\ escaped' = (escaped \/ p.escaped)
                 /\ IF f.more > 0
                      THEN /\ stack' = [stack EXCEPT ![t] =
                                  <<Frame(f.func, f.args, f.kwds, f.via, f.more - 1)>>
                                    \o rest]
                           /\ evt' = [evt EXCEPT ![f.via].runs = @ + 1]
                           /\ UNCHANGED pc
                      ELSE /\ stack' = [stack EXCEPT ![t] = rest]
                           /\ pc' = [pc EXCEPT ![t] =
                                       IF rest = <<>> THEN "idle" ELSE "running"]
                           /\ UNCHANGED evt
                 /\ UNCHANGED outcome
  /\ UNCHANGED <<call, pending, connects, connected, ncalls>>

Next ==
  \/ \E t \in Threads, c \in Calls : Call(t, c)
  \/ \E t \in Threads : NestedCall(t)
  \/ \E t \in Threads : Connect(t)
  \/ \E t \in Threads : SetFlag(t)
  \/ \E t \in Threads : PostEvent(t)
  \/ \E t \in Threads : WaitReturn(t)
  \/ \E t \in Threads : Return(t)
  \/ DispatchEvent
  \/ \E t \in Threads : FuncEnd(t)

Spec == Init /\ [][Next]_vars

\* A step of the main thread other than starting a call of its own
MainStep ==
  \/ DispatchEvent
  \/ NestedCall(MainThread)
  \/ FuncEnd(MainThread)
  \/ Return(MainThread)

\* The main thread keeps running: its loop keeps dispatching and every callable
\* terminates; a thread whose wait() can return is scheduled
FairSpec ==
  /\ Spec
  /\ WF_vars(MainStep)
  /\ \A t \in Workers : WF_vars(WaitReturn(t))

(* ---------------------------------------------------------------------- *)
(* Python's str() and repr() of the values above                           *)
(* ---------------------------------------------------------------------- *)
RECURSIVE Str(_), Repr(_), ReprArgs(_)

\* repr() of the elements of an args tuple, separated by ", "
ReprArgs(args) ==
  IF args = <<>> THEN ""
  ELSE IF Len(args) = 1 THEN Repr(args[1])
  ELSE Repr(args[1]) \o ", " \o ReprArgs(Tail(args))

Repr(v) ==
  CASE v.t = "int"  -> ToString(v.i)
    [] v.t = "str"  -> "'" \o v.s \o "'"
    [] v.t = "none" -> "None"
    [] v.t = "exc"  -> v.type \o "(" \o ReprArgs(v.args) \o ")"

\* BaseException.__str__: "" without args, str(args[0]) with one, else the
\* tuple; KeyError.__str__ gives repr(args[0]) with one
Str(v) ==
  CASE v.t = "int"  -> ToString(v.i)
    [] v.t = "str"  -> v.s
    [] v.t = "none" -> "None"
    [] v.t = "exc"  ->
         IF v.args = <<>> THEN ""
         ELSE IF Len(v.args) = 1
           THEN (IF v.type = "KeyError" THEN Repr(v.args[1]) ELSE Str(v.args[1]))
           ELSE "(" \o ReprArgs(v.args) \o ")"

(* ---------------------------------------------------------------------- *)
(* Properties                                                              *)
(* ---------------------------------------------------------------------- *)
\* What the callable of thread t's call does when the main thread executes it
Direct(t) == Apply(call[t].func, call[t].args, call[t].kwds, MainThread)

\* The main thread is executing process() of the event thread w created
Processing(w) ==
  \E i \in 1..Len(stack[MainThread]) : stack[MainThread][i].via = w

\* Thread w's invoker() call went through invoke() and has its outcome
CrossReturned(w) == w \in Workers /\ pc[w] = "returned" /\ evt[w] # NoEvt

\* C1: the body of func executes only on the main thread: no other thread ever
\* has a frame of a wrapped callable, and a frame on the main thread was entered
\* either inline from the main thread's own invoker() call or from process() of
\* an event another thread posted.
C1_FuncOnlyOnOwner ==
  /\ \A t \in Workers : stack[t] = <<>>
  /\ \A i \in 1..Len(stack[MainThread]) :
       LET f == stack[MainThread][i] IN
         IF f.via = Inline
           THEN IF i = Len(stack[MainThread])
                  THEN call[MainThread] = [func |-> f.func, args |-> f.args, kwds |-> f.kwds]
                  ELSE stack[MainThread][i + 1].func = "outer"
           ELSE f.via \in Workers /\ evt[f.via].posted /\ evt[f.via].func = f.func

C1_Witness ==
  /\ stack[MainThread] # <<>>
  /\ Head(stack[MainThread]).via \in Workers
  /\ pc[Head(stack[MainThread]).via] = "wait"

\* C2: a call from another thread whose callable returns v comes back only
\* after the main thread's loop has processed its event, and returns exactly v,
\* the value process() stored for that request.
C2_ReturnsValue ==
  \A w \in Workers :
    (pc[w] = "returned" /\ Direct(w).kind = "return") =>
      /\ outcome[w] = Returned(Direct(w).value)
      /\ evt[w].runs >= 1 /\ ~Processing(w)
      /\ sig[evt[w].event].result = outcome[w].value

C2_Witness ==
  \E w \in Workers :
    /\ CrossReturned(w)
    /\ call[w].func = "add" /\ call[w].args[2] = 2 /\ call[w].kwds # NoKwds
    /\ outcome[w] = Returned(IntVal(5))

\* C3 (as claimed): a call from another thread whose callable raises E raises
\* on the caller an error of the same type and the same message as E.
C3_SameTypeAndMessage ==
  \A w \in Workers :
    (pc[w] = "returned" /\ Direct(w).kind = "raise") =>
      /\ outcome[w].kind = "raise"
      /\ outcome[w].exc.type = Direct(w).exc.type
      /\ Str(outcome[w].exc) = Str(Direct(w).exc)

\* C4: a call of the wrapped callable on the main thread has the outcome of
\* calling the callable directly: the same value returned or the same error
\* raised.
C4_OwnerPassthrough ==
  pc[MainThread] = "returned" => outcome[MainThread] = Direct(MainThread)

C4_Witness ==
  /\ pc[MainThread] = "returned"
  /\ call[MainThread].func = "add"
  /\ outcome[MainThread] = Returned(IntVal(5))

\* What invoke() gives a caller on thread w whose own callable had outcome d
Marshalled(d, w) ==
  IF d.kind = "return" THEN d ELSE Raised(reraise(d.exc, d.exc.tb, w))

\* C5: concurrent callers on other threads each get the outcome of their own
\* func run with their own arguments, and the signal a caller waits on is set
\* only by process() of that caller's own request.
C5_OwnOutcomeInv ==
  \A w \in Workers :
    pc[w] = "returned" =>
      /\ outcome[w] = Marshalled(Direct(w), w)
      /\ evt[w].runs >= 1 /\ ~Processing(w)

C5_OwnSignalStep ==
  \A w \in Workers :
    (pc[w] = "wait" /\ ~sig[evt[w].event].isset /\ sig'[evt[w].event].isset) =>
      (Processing(w) /\ Head(stack[MainThread]).via = w)

C5_NoCrossTalk == []C5_OwnOutcomeInv /\ [][C5_OwnSignalStep]_vars

C5_Witness ==
  \E w1, w2 \in Workers :
    /\ w1 # w2
    /\ pc[w1] = "returned" /\ pc[w2] = "returned"
    /\ call[w1].args[1] = call[w2].args[1]
    /\ outcome[w1].kind = "return" /\ outcome[w2].kind = "raise"

\* C6 (as claimed): however many calls other threads make on a target, and
\* also when two of them make the first call at the same time, Connect is
\* called exactly once for it.
C6_ExactlyOneConnect ==
  \A g \in Targets :
    /\ connects[g] <= 1
    /\ connected[g] => connects[g] = 1

\* C7: process() of a request starts only after invoke() posted it, invoke()
\* leaves wait() only after process() of that request has finished, and a
\* caller whose request is unprocessed stays in wait().
C7_OrderInv ==
  \A w \in Workers :
    /\ (evt[w] # NoEvt /\ (Processing(w) \/ evt[w].runs >= 1)) =>
         (evt[w].posted /\ pc[w] \in {"wait", "returned"})
    /\ Processing(w) => pc[w] = "wait"
    /\ pc[w] = "returned" =>
         (evt[w].runs >= 1 /\ ~Processing(w) /\ sig[evt[w].event].isset)

C7_BlockedStep ==
  \A w \in Workers :
    (pc[w] = "wait" /\ (evt[w].runs = 0 \/ Processing(w))) => pc'[w] = "wait"

C7_Ordering == []C7_OrderInv /\ [][C7_BlockedStep]_vars

C7_Witness ==
  \E w \in Workers :
    /\ pc[w] = "wait" /\ evt[w].runs = 1 /\ ~Processing(w)
    /\ sig[evt[w].event].isset
    /\ pending # <<>>

\* C8: whether func returns or raises, no error leaves process() into the
\* event loop, and process() ends with an outcome recorded and the event set;
\* the main thread is then back in its loop.
C8_ProcessAlwaysSignals ==
  /\ ~escaped
  /\ \A w \in Workers :
       (evt[w] # NoEvt /\ evt[w].runs >= 1 /\ ~Processing(w)) =>
         /\ sig[evt[w].event].isset
         /\ (sig[evt[w].event].result # Absent
               \/ sig[evt[w].event].exception # NoneVal)
  /\ pc[MainThread] = "running" => stack[MainThread] # <<>>

C8_Witness ==
  \E w \in Workers :
    /\ pc[w] = "wait" /\ evt[w].runs = 1 /\ ~Processing(w)
    /\ sig[evt[w].event].exception # NoneVal
    /\ pc[MainThread] = "running" /\ Head(stack[MainThread]).via \in Workers

\* C9: while the main thread's loop keeps dispatching and callables terminate,
\* every caller that has posted a request gets its outcome, a value or an
\* error, and leaves invoke().
C9_EveryCallerUnblocks ==
  \A w \in Workers :
    (pc[w] = "wait") ~> (pc[w] = "returned" /\ outcome[w].kind \in {"return", "raise"})

C9_Witness ==
  /\ \A w \in Workers : pc[w] = "returned"
  /\ \E w \in Workers : outcome[w].kind = "raise"

\* The same object: created by the same construction with the same contents
SameObject(a, b) == a.site = b.site /\ a.type = b.type /\ a.args = b.args

\* t is a suffix of s
IsSuffix(t, s) ==
  /\ Len(t) <= Len(s)
  /\ \A i \in 1..Len(t) : t[i] = s[Len(s) - Len(t) + i]

\* C10 (as claimed): the error raised on the calling thread is the error
\* object the callable raised, and it carries the traceback captured where the
\* callable failed on the main thread.
C10_SameErrorObject ==
  \A w \in Workers :
    (pc[w] = "returned" /\ Direct(w).kind = "raise") =>
      /\ outcome[w].kind = "raise"
      /\ SameObject(outcome[w].exc, Direct(w).exc)
      /\ IsSuffix(Direct(w).exc.tb, outcome[w].exc.tb)

\* C11: process() runs at most once for each MethodInvocationEvent, also on a
\* target where two racing first callers have both called Connect, and a
\* caller that has its outcome had its callable executed exactly once.
C11_ProcessAtMostOnce ==
  \A w \in Workers :
    /\ evt[w] # NoEvt => evt[w].runs <= 1
    /\ pc[w] = "returned" => (evt[w].runs = 1 /\ ~Processing(w))

C11_Witness ==
  \E w \in Workers :
    /\ pc[w] = "returned"
    /\ connects[evt[w].args[1]] = 2
    /\ evt[w].runs = 1

\* The frames of the main thread that are process() calls of posted events
ProcessFrames ==
  {i \in 1..Len(stack[MainThread]) : stack[MainThread][i].via \in Workers}

\* C12 (as claimed): at any time at most one process() of an event posted by
\* another thread is in progress.
C12_AtMostOneProcess == Cardinality(ProcessFrames) <= 1

\* C12 (amended): callables of cross-thread callers run on the main thread
\* only; a process() that starts while another is in progress starts inside a
\* callable that is itself running the event loop, directly on top of it, so
\* it finishes before that callable goes on; and process() starts only for the
\* event at the head of the queue, when the main thread is in a loop.
C12_NestedInv ==
  /\ \A t \in Workers : stack[t] = <<>>
  /\ \A i \in ProcessFrames :
       i < Len(stack[MainThread]) => stack[MainThread][i + 1].func = "getdata"

C12_StartStep ==
  \A w \in Workers :
    (~Processing(w) /\ Processing(w)') =>
      /\ InLoop
      /\ pending # <<>> /\ Head(pending).ref = w
      /\ Head(stack'[MainThread]).via = w
      /\ Tail(stack'[MainThread]) = stack[MainThread]

C12_Serialized == []C12_NestedInv /\ [][C12_StartStep]_vars

C12_Witness ==
  /\ Len(stack[MainThread]) = 2
  /\ ProcessFrames = {1, 2}
  /\ stack[MainThread][2].func = "getdata"
  /\ stack[MainThread][1].func = "add"

\* C13: when a caller on another thread posts a request to a target, a Connect
\* of the handler on that target has already completed: the flag is on a target
\* only after a Connect on it, a caller about to post has seen the flag or
\* called Connect itself, and every posted event is on a connected target.
C13_ConnectBeforePost ==
  /\ \A g \in Targets : connected[g] => connects[g] >= 1
  /\ \A w \in Workers :
       /\ pc[w] \in {"setflag", "post"} => connects[call[w].args[1]] >= 1
       /\ (evt[w] # NoEvt /\ evt[w].posted) => connects[evt[w].args[1]] >= 1
  /\ \A i \in 1..Len(pending) : connects[pending[i].target] >= 1

C13_Witness ==
  /\ Len(pending) = 2
  /\ pending[1].target = pending[2].target
  /\ connects[pending[1].target] = 1

\* C14 (as claimed): once the flag is set on a target, Connect is not called
\* on it again, so its number of registrations never increases; and whether a
\* call registers its target depends on the flag of that target alone.
C14_Step ==
  /\ \A g \in Targets : connected[g] => connects'[g] = connects[g]
  /\ \A w \in Workers :
       (pc[w] = "idle" /\ pc'[w] # "idle") =>
         (pc'[w] = "connect" <=> ~connected[call'[w].args[1]])

C14_NoConnectAfterFlag == [][C14_Step]_vars

\* A step of a call of a wrapped method made on the main thread: invoker() is
\* entered or left, or the callable it called directly begins or ends
OwnerCallStep ==
  \/ call'[MainThread] # call[MainThread]
  \/ /\ Len(stack'[MainThread]) > Len(stack[MainThread])
     /\ Head(stack'[MainThread]).via = Inline
  \/ /\ Len(stack'[MainThread]) < Len(stack[MainThread])
     /\ Head(stack[MainThread]).via = Inline

\* C15: a call of a wrapped method on the main thread calls no Connect, sets
\* no flag, creates no MethodInvocationEvent, posts nothing and never waits on
\* a completion signal.
C15_OwnerInv ==
  /\ pc[MainThread] \in {"idle", "running", "returned"}
  /\ evt[MainThread] = NoEvt /\ sig[MainThread] = NoSig
  /\ \A i \in 1..Len(pending) : pending[i].ref # MainThread

C15_OwnerStep ==
  OwnerCallStep => UNCHANGED <<connects, connected, evt, sig, pending>>

C15_OwnerCallNoMarshalling == []C15_OwnerInv /\ [][C15_OwnerStep]_vars

C15_Witness ==
  /\ pc[MainThread] = "returned"
  /\ call[MainThread].func = "outer"
  /\ outcome[MainThread] = Returned(IntVal(3))
  /\ connects[call[MainThread].args[1]] = 0
  /\ ~connected[call[MainThread].args[1]]
  /\ \E w \in Workers : pc[w] = "wait"

\* The callable process() is executing for thread w's event has itself called
\* a wrapped method, whose invoker() is on the main thread's stack above it
NestedIn(w) ==
  \E i \in 2..Len(stack[MainThread]) :
    /\ stack[MainThread][i].via = w
    /\ stack[MainThread][i - 1].via = Inline

\* C16: a wrapped method called by a callable that process() is executing runs
\* inline on the main thread, without posting an event or waiting, and the
\* outer call from the other thread still completes with its result once the
\* main loop dispatches its event.
C16_NestedInlineInv ==
  \A w \in Workers :
    NestedIn(w) =>
      /\ pc[MainThread] = "running"
      /\ evt[MainThread] = NoEvt /\ sig[MainThread] = NoSig
      /\ \A i \in 1..Len(pending) : pending[i].ref # MainThread
      /\ pc[w] = "wait"

C16_NestedStep ==
  \A w \in Workers :
    (NestedIn(w) # NestedIn(w)') =>
      UNCHANGED <<connects, connected, evt, sig, pending, pc>>

C16_OuterCompletes ==
  \A w \in Workers :
    (pc[w] = "wait" /\ call[w].func = "outer")
      ~> (pc[w] = "returned" /\ outcome[w] = Returned(IntVal(3)))

C16_NestedNoDeadlock ==
  []C16_NestedInlineInv /\ [][C16_NestedStep]_vars /\ C16_OuterCompletes

C16_Witness ==
  \E w \in Workers :
    /\ CrossReturned(w)
    /\ call[w].func = "outer"
    /\ evt[w].runs = 1
    /\ outcome[w] = Returned(IntVal(3))
    /\ pc[MainThread] = "idle"

\* The EventWithData objects that exist
Signals == {k \in DOMAIN sig : sig[k] # NoSig}

HasResult(ev) == ev.result # Absent

HasException(ev) == ev.exception # NoneVal

\* C17: an EventWithData never has both a result and a captured error, and
\* once it is set it has exactly one of the two.
C17_AtMostOneOutcome ==
  \A k \in Signals :
    /\ ~(HasResult(sig[k]) /\ HasException(sig[k]))
    /\ sig[k].isset => (HasResult(sig[k]) # HasException(sig[k]))
    /\ HasException(sig[k]) => sig[k].exception.t = "exc"

C17_Witness ==
  \E j, k \in Signals :
    /\ sig[j].isset /\ HasException(sig[j]) /\ ~HasResult(sig[j])
    /\ sig[k].isset /\ HasResult(sig[k]) /\ sig[k].result.t = "exc"

\* C18: success and failure are told apart by whether a result was stored: a
\* call from another thread whose callable returns None, or an error object,
\* returns that value and does not raise, and invoke() raises only when
\* process() captured an error the callable raised.
C18_ResultStoredDecides ==
  \A w \in Workers :
    CrossReturned(w) =>
      /\ (outcome[w].kind = "return") = HasResult(sig[evt[w].event])
      /\ call[w].func = "getnone" => outcome[w] = Returned(NoneVal)
      /\ call[w].func = "reterr" =>
           (outcome[w].kind = "return" /\ outcome[w].value = Direct(w).value
              /\ outcome[w].value.t = "exc")
      /\ outcome[w].kind = "raise" =>
           /\ HasException(sig[evt[w].event])
           /\ Direct(w).kind = "raise"
           /\ sig[evt[w].event].exception = Direct(w).exc

C18_Witness ==
  \E v, w \in Workers :
    /\ CrossReturned(v) /\ call[v].func = "getnone"
    /\ outcome[v] = Returned(NoneVal)
    /\ CrossReturned(w) /\ call[w].func = "reterr"
    /\ outcome[w].kind = "return"

====
